---- MODULE Spec2Model ----
(***************************************************************************)
(* Move resolution (move_logic.safe_get_move) and the match loop of       *)
(* main.py, over a reduced position oracle standing for python-chess.     *)
(* Rendering (board_history, the placeholders, debug_log output) and the  *)
(* sub-model names, which are passed through to the backend untouched,    *)
(* are left out.                                                          *)
(***************************************************************************)
EXTENDS Integers, Sequences, FiniteSets, TLC

VARIABLES
    user_params,     \* what render_main_ui returned (main.py 69-78)
    max_retries,     \* safe_get_move parameter max_retries
    board,           \* chess.Board: [pos, move_stack]
    turn,            \* main.py `turn`: "white" / "black"
    forfeit_winner,  \* main.py `forfeit_winner`: Nothing or <<side>>
    move_clock,      \* st.session_state.move_clock: side -> Nothing or <<seconds>>
    node,            \* PGN main line built by add_variation: sequence of moves
    move_log,        \* st.session_state.move_log
    final_result,    \* main.py `final_result` / `result`: Nothing or <<text>>
    pc,              \* where the script is
    excluded_moves,  \* safe_get_move local list
    attempt,         \* safe_get_move loop variable
    move,            \* value safe_get_move returned to main.py
    via,             \* which return statement of safe_get_move produced `move`
    prompts,         \* prompts handed to the backend during the current safe_get_move call
    responses,       \* texts the engine_func returned during the current safe_get_move call
    warnings,        \* st.warning messages shown so far
    plies            \* number of safe_get_move calls the loop has made

vars == <<user_params, max_retries, board, turn, forfeit_winner, move_clock, node,
          move_log, final_result, pc, excluded_moves, attempt, move, via, prompts,
          responses, warnings, plies>>

-----------------------------------------------------------------------------
(* Bounds of the model *)

\* largest "Minutes per side" the user enters
MaxMinutes == 1
\* longest time (seconds) one ply takes; plies take 1 or MaxElapsed seconds
MaxElapsed == 60
\* largest max_retries safe_get_move is called with when the argument is varied
MaxRetries == 3

(* Program constants *)

\* main.py 142: max_retries=3
MainMaxRetries == 3
\* main.py 114: minutes * 60
SecondsPerMinute == 60

-----------------------------------------------------------------------------
(* Python values *)

\* Optional values: Nothing is Python's None where the other case is a number or text
Nothing == <<>>
Some(x) == <<x>>

\* Python None in the place of a chess.Move
None == [none |-> TRUE]
\* the ValueError raised by parse_uci / parse_san
ValueError == [error |-> "ValueError"]

-----------------------------------------------------------------------------
(* Position oracle: a reduced game standing for python-chess *)

Mv(f, t) == [from_square |-> f, to_square |-> t]

\* chess.Move.null()
NullMove == Mv(0, 0)

e2e4 == Mv(12, 28)
g1f3 == Mv(6, 21)
e7e5 == Mv(52, 36)
g8f6 == Mv(62, 45)
d8h4 == Mv(59, 31)
d1h5 == Mv(3, 39)
\* pseudo-legal king step that the rules forbid in every position of the reduced game
e1e2 == Mv(4, 12)

StartPos == "P0"

\* transitions of the reduced game: <<position, move>> -> position
Transitions ==
    (<<"P0", e2e4>> :> "P1") @@ (<<"P0", g1f3>> :> "P2") @@
    (<<"P1", e7e5>> :> "P3") @@ (<<"P1", g8f6>> :> "P6") @@
    (<<"P2", e7e5>> :> "P4") @@ (<<"P2", d8h4>> :> "P9") @@
    (<<"P3", g1f3>> :> "P8") @@ (<<"P3", d1h5>> :> "P7") @@
    (<<"P4", e2e4>> :> "P5") @@
    (<<"P6", d1h5>> :> "P5")

AllMoves == {e2e4, g1f3, e7e5, g8f6, d8h4, d1h5, e1e2}

\* positions where the side to move is in check: P7 and P9 are mates, while P5 and
\* P8, also without a legal move, are stalemates
InCheck == {"P7", "P9"}
\* positions drawn by rule (insufficient material, repetition, 75 moves)
DrawnByRule == {"P6"}

\* board.legal_moves
legal_moves(b) == {m \in AllMoves : <<b.pos, m>> \in DOMAIN Transitions}

\* board.turn (chess.WHITE = TRUE)
board_turn(b) == Len(b.move_stack) % 2 = 0

\* board.is_checkmate()
is_checkmate(b) == b.pos \in InCheck /\ legal_moves(b) = {}

\* bug variant: only mate and the draws by rule end the game, stalemate does not
is_game_over_but_stalemate(b) == is_checkmate(b) \/ b.pos \in DrawnByRule

\* board.is_game_over()
is_game_over(b) == legal_moves(b) = {} \/ b.pos \in DrawnByRule

\* board.result()
result(b) ==
    IF is_checkmate(b) THEN (IF board_turn(b) THEN "0-1" ELSE "1-0")
    ELSE IF is_game_over(b) THEN "1/2-1/2"
    ELSE "*"

\* board.push(move)
push(b, m) ==
    [pos |-> IF <<b.pos, m>> \in DOMAIN Transitions THEN Transitions[<<b.pos, m>>] ELSE b.pos,
     move_stack |-> Append(b.move_stack, m)]

\* board.fen(): placement, side to move and full-move number
fen(b) == [placement |-> b.pos, white_to_move |-> board_turn(b),
           fullmove |-> (Len(b.move_stack) \div 2) + 1]

\* chess.Board()
NewBoard == [pos |-> StartPos, move_stack |-> <<>>]

-----------------------------------------------------------------------------
(* Notations *)

\* chess.Move.from_uci on the texts of the model; any other text is a syntax error
UciTable ==
    ("e2e4" :> e2e4) @@ ("g1f3" :> g1f3) @@ ("e7e5" :> e7e5) @@ ("g8f6" :> g8f6) @@
    ("d8h4" :> d8h4) @@ ("d1h5" :> d1h5) @@ ("e1e2" :> e1e2) @@ ("0000" :> NullMove)

from_uci(text) == IF text \in DOMAIN UciTable THEN UciTable[text] ELSE ValueError

\* board.parse_uci: a null move is returned unchecked, any other move must be legal
parse_uci(b, text) ==
    LET m == from_uci(text) IN
    IF m = ValueError THEN ValueError
    ELSE IF m = NullMove THEN m
    ELSE IF m \in legal_moves(b) THEN m
    ELSE ValueError

\* board.san(move): the algebraic text, with the mate mark when the move mates
SanTable ==
    (e2e4 :> "e4") @@ (g1f3 :> "Nf3") @@ (e7e5 :> "e5") @@ (g8f6 :> "Nf6") @@
    (d8h4 :> "Qh4") @@ (d1h5 :> "Qh5") @@ (e1e2 :> "Ke2")

SanMateTable ==
    (e2e4 :> "e4#") @@ (g1f3 :> "Nf3#") @@ (e7e5 :> "e5#") @@ (g8f6 :> "Nf6#") @@
    (d8h4 :> "Qh4#") @@ (d1h5 :> "Qh5#") @@ (e1e2 :> "Ke2#")

san(b, m) == IF is_checkmate(push(b, m)) THEN SanMateTable[m] ELSE SanTable[m]

\* texts board.parse_san reads as the null move
NullSan == {"--", "Z0", "0000", "@@@@"}

\* board.parse_san: the null move, or the one legal move written that way
\* (check and mate marks are optional when reading)
SanReads(b, m, text) == text = SanTable[m] \/ text = SanMateTable[m]

parse_san(b, text) ==
    IF text \in NullSan THEN NullMove
    ELSE IF \E m \in legal_moves(b) : SanReads(b, m, text)
         THEN CHOOSE m \in legal_moves(b) : SanReads(b, m, text)
         ELSE ValueError

\* str.strip on the texts of the model
StripTable == (" e2e4 " :> "e2e4") @@ ("e4\n" :> "e4") @@ ("  " :> "")

strip(text) == IF text \in DOMAIN StripTable THEN StripTable[text] ELSE text

-----------------------------------------------------------------------------
(* Move providers (ai_wrappers.py) *)

\* keys of ENGINE_FUNCTIONS
EngineNames == {"OpenAI", "Claude", "DeepSeek", "Gemini"}

\* the engines the user picks from in the model: one that lets a failed request
\* raise (OpenAI and Gemini do the same) and the one that catches it
EngineChoices == {"Claude", "DeepSeek"}

\* message contents a backend answers with
BackendContents == {"e2e4", " e2e4 ", "e4\n", "e7e5", "g1f3", "0000", "e9e9", "e1e2", ""}

\* one network round trip: an answer, or a failed request
BackendOutcomes ==
    {[ok |-> TRUE, content |-> c] : c \in BackendContents} \cup {[ok |-> FALSE, content |-> ""]}

\* color_str
color_str(b) == IF board_turn(b) THEN "White" ELSE "Black"

\* bug variant: the exclusion block is written for an empty list too
exclusion_text_always(excluded) == [present |-> TRUE, listed |-> excluded]

\* exclusion_text: the block is present only for a non-empty list
exclusion_text(excluded) ==
    IF excluded /= <<>> THEN [present |-> TRUE, listed |-> excluded]
    ELSE [present |-> FALSE, listed |-> <<>>]

\* the prompt every get_*_move builds: the turn line, the FEN line and the
\* exclusion text; it is built from the board and the list alone, and
\* user_params.include_valid_moves is read nowhere
build_prompt(b, excluded) ==
    [color |-> color_str(b), fen |-> fen(b), exclusion |-> exclusion_text(excluded)]

\* bug variant: get_deepseek_move without its try/except
engine_func_uncaught(engine, out) ==
    [raised |-> ~out.ok,
     text   |-> IF out.ok THEN strip(out.content) ELSE ""]

\* what get_*_move does with the outcome of its request: it returns the stripped
\* content; on a failed request get_deepseek_move returns "" and the others raise
engine_func(engine, out) ==
    [raised |-> ~out.ok /\ engine /= "DeepSeek",
     text   |-> IF out.ok THEN strip(out.content) ELSE ""]

-----------------------------------------------------------------------------
(* move_logic.safe_get_move *)

\* bug variant: the list of the earlier call is reused (a module-level or default-argument list)
stale_excluded(previous) == previous

\* line 29: excluded_moves = [], whatever an earlier call left behind
fresh_excluded(previous) == <<>>

\* bug variant: the loop runs once more than max_retries allows
loop_continues_once_more(k, retries) == k <= retries

\* line 31: for attempt in range(max_retries)
loop_continues(k, retries) == k < retries

\* bug variant: only the UCI reading is tried
parse_move_uci_only(b, raw_move) ==
    LET uci == parse_uci(b, raw_move) IN
    IF uci /= ValueError THEN uci ELSE None

\* lines 35-43: UCI first, SAN when UCI raises ValueError, None when both raise
parse_move(b, raw_move) ==
    LET uci == parse_uci(b, raw_move) IN
    IF uci /= ValueError THEN uci
    ELSE LET alg == parse_san(b, raw_move) IN
         IF alg /= ValueError THEN alg ELSE None

\* bug variant: any parsed move is accepted, the membership test is missing
is_accepted_unchecked(b, m) == m /= None

\* line 45: move is not None and move in board.legal_moves
is_accepted(b, m) == m /= None /\ m \in legal_moves(b)

\* bug variant: the text is validated with push_uci / push_san, which leave the move on the board
probe_by_push(b, parsed) == IF parsed \in legal_moves(b) THEN push(b, parsed) ELSE b

\* lines 36-45: parsing and the membership test leave the board as it is
probe(b, parsed) == b

\* bug variant: the text is appended before the move is tested
accepted_exclusions_appended(excluded, raw_move) == Append(excluded, raw_move)

\* lines 45-46: return move, the list is left as it is
accepted_exclusions(excluded, raw_move) == excluded

\* bug variant: a text already in the list is not appended again
append_if_new(excluded, raw_move) ==
    IF \E i \in 1..Len(excluded) : excluded[i] = raw_move THEN excluded
    ELSE Append(excluded, raw_move)

\* line 49: excluded_moves.append(raw_move)
append_excluded(excluded, raw_move) == Append(excluded, raw_move)

\* bug variant: the first legal move is taken instead of a random one
first_legal_move(b) ==
    IF legal_moves(b) = {} THEN {} ELSE {CHOOSE m \in legal_moves(b) : TRUE}

\* line 58: random.choice(list(board.legal_moves)) may return any element
fallback_choices(b) == legal_moves(b)

\* bug variant: the flag is not passed on and the default random_fallback=True applies
always_fallback(params) == TRUE

\* bug variant: the flag is read negated
use_fallback_negated(params) == ~params.random_fallback

\* line 53: if random_fallback, the flag main.py 143 passes
use_fallback(params) == params.random_fallback

\* bug variant: the warning reports the zero-based loop index instead of max_retries
exhausted_warning_off_by_one(side, retries, fallback) ==
    [side |-> side, tries |-> retries - 1,
     kind |-> IF fallback THEN "random fallback" ELSE "forfeit"]

\* lines 54-57 and 60-63: the st.warning of the two exhausted branches
exhausted_warning(side, retries, fallback) ==
    [side |-> side, tries |-> retries,
     kind |-> IF fallback THEN "random fallback" ELSE "forfeit"]

-----------------------------------------------------------------------------
(* main.py *)

\* bug variant: the engine of White is used for both sides
engine_of_white(side) == user_params.white_engine

\* lines 129-134: the engine and sub-model configured for the side to move
engine_of(side) ==
    IF side = "white" THEN user_params.white_engine ELSE user_params.black_engine

\* bug variant: the side is not swapped
same_side(side) == side

\* lines 149, 169 and 191: 'black' if turn == 'white' else 'white'
opponent(side) == IF side = "white" THEN "black" ELSE "white"

\* line 148: if move is None
is_forfeit(m) == m = None

\* lines 113-116: minutes * 60 if (time_control and minutes) else None
initial_clock(params) ==
    IF params.time_control /\ params.minutes /= Nothing /\ params.minutes /= Some(0)
    THEN Some(params.minutes[1] * SecondsPerMinute)
    ELSE Nothing

\* bug variant: the time is taken from the clock of the other side
run_clock_of_opponent(clocks, side, elapsed) ==
    [clocks EXCEPT ![IF side = "white" THEN "black" ELSE "white"] = Some(@[1] - elapsed)]

\* line 165: st.session_state.move_clock[turn] -= elapsed
run_clock(clocks, side, elapsed) == [clocks EXCEPT ![side] = Some(@[1] - elapsed)]

\* lines 194-200: the result text of a forfeit
forfeit_result(winner) == IF winner = "white" THEN "1-0" ELSE "0-1"

\* time.time() - start_time: seconds one ply took
ElapsedChoices == {1, MaxElapsed}

\* ui.render_main_ui: the choices of the user
UserParams ==
    {[white_engine |-> we, black_engine |-> be, time_control |-> tc,
      minutes |-> mi, random_fallback |-> rf, include_valid_moves |-> iv] :
        we \in EngineChoices, be \in EngineChoices, tc \in BOOLEAN,
        mi \in {Nothing} \cup {Some(n) : n \in 1..MaxMinutes}, rf \in BOOLEAN,
        iv \in BOOLEAN}

\* ui.py 84-90: minutes is a number exactly when the time control box is ticked
ParamsFromUi(params) == params.time_control <=> params.minutes /= Nothing

\* main.py 94-125: the state when the game loop is entered after "Start Game",
\* for the choices `params` of the user and the max_retries the loop passes on
Start(params, retries) ==
    /\ user_params = params
    /\ max_retries = retries
    /\ board = NewBoard
    /\ turn = "white"
    /\ forfeit_winner = Nothing
    /\ move_clock = [side \in {"white", "black"} |-> initial_clock(params)]
    /\ node = <<>>
    /\ move_log = <<>>
    /\ final_result = Nothing
    /\ pc = "loop"
    /\ excluded_moves = <<>>
    /\ attempt = 0
    /\ move = None
    /\ via = "none"
    /\ prompts = <<>>
    /\ responses = <<>>
    /\ warnings = <<>>
    /\ plies = 0

Init ==
    \E params \in UserParams :
        ParamsFromUi(params) /\ Start(params, MainMaxRetries)

\* main.py 127-145: the loop test passes and safe_get_move is entered (its line 29)
EnterPly ==
    /\ pc = "loop"
    /\ ~is_game_over(board)
    /\ pc' = "attempting"
    /\ excluded_moves' = fresh_excluded(excluded_moves)
    /\ attempt' = 0
    /\ move' = None
    /\ via' = "none"
    /\ prompts' = <<>>
    /\ responses' = <<>>
    /\ plies' = plies + 1
    /\ UNCHANGED <<user_params, max_retries, board, turn, forfeit_winner, move_clock,
                   node, move_log, final_result, warnings>>

\* main.py 127: the loop test fails
LeaveLoop ==
    /\ pc = "loop"
    /\ is_game_over(board)
    /\ pc' = "over"
    /\ UNCHANGED <<user_params, max_retries, board, turn, forfeit_winner, move_clock,
                   node, move_log, final_result, excluded_moves, attempt, move, via,
                   prompts, responses, warnings, plies>>

\* move_logic.py 31-50: one pass of the retry loop
Attempt ==
    /\ pc = "attempting"
    /\ loop_continues(attempt, max_retries)
    /\ \E out \in BackendOutcomes :
        LET answer == engine_func(engine_of(turn), out)
            raw_move == strip(answer.text)
            parsed == parse_move(board, raw_move)
        IN  /\ prompts' = Append(prompts, build_prompt(board, excluded_moves))
            /\ IF answer.raised
               THEN \* the exception leaves safe_get_move and the script
                    /\ pc' = "crashed"
                    /\ UNCHANGED <<board, responses, excluded_moves, attempt, move, via>>
               ELSE /\ responses' = Append(responses, answer.text)
                    /\ board' = probe(board, parsed)
                    /\ IF is_accepted(board, parsed)
                       THEN /\ move' = parsed
                            /\ via' = "provider"
                            /\ pc' = "returned"
                            /\ excluded_moves' = accepted_exclusions(excluded_moves, raw_move)
                            /\ UNCHANGED attempt
                       ELSE /\ excluded_moves' = append_excluded(excluded_moves, raw_move)
                            /\ attempt' = attempt + 1
                            /\ UNCHANGED <<move, via, pc>>
    /\ UNCHANGED <<user_params, max_retries, turn, forfeit_winner, move_clock,
                   node, move_log, final_result, warnings, plies>>

\* move_logic.py 52-64: the loop is exhausted
Exhausted ==
    /\ pc = "attempting"
    /\ ~loop_continues(attempt, max_retries)
    /\ warnings' = Append(warnings,
            exhausted_warning(turn, max_retries, use_fallback(user_params)))
    /\ IF use_fallback(user_params)
       THEN IF fallback_choices(board) = {}
            THEN \* random.choice raises IndexError on an empty list
                 pc' = "crashed" /\ UNCHANGED <<move, via>>
            ELSE /\ move' \in fallback_choices(board)
                 /\ via' = "fallback"
                 /\ pc' = "returned"
       ELSE /\ move' = None
            /\ via' = "forfeit"
            /\ pc' = "returned"
    /\ UNCHANGED <<user_params, max_retries, board, turn, forfeit_winner, move_clock,
                   node, move_log, final_result, excluded_moves, attempt, prompts,
                   responses, plies>>

\* main.py 147-150: no move, the side to move forfeits
Forfeit ==
    /\ pc = "returned"
    /\ is_forfeit(move)
    /\ forfeit_winner' = Some(opponent(turn))
    /\ pc' = "over"
    /\ UNCHANGED <<user_params, max_retries, board, turn, move_clock, node, move_log,
                   final_result, excluded_moves, attempt, move, via, prompts, responses,
                   warnings, plies>>

\* main.py 152-191: the move is pushed, the clock of the mover runs, the move is
\* recorded and the turn passes; a mover out of time loses at once
PlayMove ==
    /\ pc = "returned"
    /\ ~is_forfeit(move)
    /\ \E elapsed \in ElapsedChoices :
        LET text == san(board, move)
            runs == user_params.time_control /\ move_clock[turn] /= Nothing
            clock == IF runs THEN run_clock(move_clock, turn, elapsed) ELSE move_clock
            out_of_time == runs /\ clock[turn][1] <= 0
        IN  /\ board' = push(board, move)
            /\ move_clock' = clock
            /\ IF out_of_time
               THEN /\ warnings' = Append(warnings,
                            [side |-> turn, tries |-> 0, kind |-> "out of time"])
                    /\ forfeit_winner' = Some(opponent(turn))
                    /\ pc' = "over"
                    /\ UNCHANGED <<node, move_log, turn>>
               ELSE /\ node' = Append(node, move)
                    /\ move_log' = Append(move_log, [side |-> turn, san |-> text])
                    /\ turn' = opponent(turn)
                    /\ pc' = "loop"
                    /\ UNCHANGED <<warnings, forfeit_winner>>
    /\ UNCHANGED <<user_params, max_retries, final_result, excluded_moves, attempt,
                   move, via, prompts, responses, plies>>

\* main.py 193-216: the result is announced
GameOver ==
    /\ pc = "over"
    /\ final_result' = IF forfeit_winner /= Nothing
                       THEN Some(forfeit_result(forfeit_winner[1]))
                       ELSE Some(result(board))
    /\ pc' = "done"
    /\ UNCHANGED <<user_params, max_retries, board, turn, forfeit_winner, move_clock,
                   node, move_log, excluded_moves, attempt, move, via, prompts,
                   responses, warnings, plies>>

Next == EnterPly \/ LeaveLoop \/ Attempt \/ Exhausted \/ Forfeit \/ PlayMove \/ GameOver

Spec == Init /\ [][Next]_vars

\* safe_get_move with its parameter max_retries varied: the same loop, untimed,
\* calling it with any max_retries in 0..MaxRetries instead of main.py's 3
ResolveInit ==
    \E params \in UserParams, retries \in 0..MaxRetries :
        ParamsFromUi(params) /\ ~params.time_control /\ Start(params, retries)

ResolveSpec == ResolveInit /\ [][Next]_vars

TypeOK ==
    /\ pc \in {"loop", "attempting", "returned", "over", "crashed", "done"}
    /\ turn \in {"white", "black"}
    /\ attempt \in 0..max_retries
    /\ via \in {"none", "provider", "fallback", "forfeit"}

-----------------------------------------------------------------------------
(* Properties *)

\* the position safe_get_move was called on is still the one on the board
InCall == pc \in {"attempting", "returned"}

\* what safe_get_move makes of one text on the current board
Valid(text) == parse_move(board, strip(text)) \in legal_moves(board)

\* C1: whatever the provider answers, safe_get_move returns a member of the
\* legal-move set of the position or None (forfeit); no unvalidated or illegal move,
\* the null move included, reaches the match loop.
C1_ReturnsLegalMoveOrNone ==
    pc = "returned" => (move = None \/ move \in legal_moves(board))

\* C1 witness: a provider move was returned after the null move "0000" (which parses)
\* and an illegal text had been rejected.
C1_Witness ==
    /\ pc = "returned" /\ via = "provider"
    /\ move \in legal_moves(board)
    /\ \E i \in 1..Len(excluded_moves) : excluded_moves[i] = "0000"
    /\ \E i \in 1..Len(excluded_moves) : excluded_moves[i] = "e1e2"

\* C2 (as claimed): no exception leaves safe_get_move; a provider call that raises
\* consumes one attempt like an invalid answer, so every call made so far in the
\* running loop is matched by one consumed attempt.
C2_NoExceptionEscapes ==
    /\ pc /= "crashed"
    /\ (pc = "attempting" => Len(prompts) = attempt)

\* C3 (as claimed): a call of safe_get_move makes at most max_retries provider calls
\* and, once it is no longer running, has always yielded a decision: a provider move,
\* a fallback move or the forfeit; with the attempts used up the fallback/forfeit
\* branch is the only step left.
C3_AlwaysDecidesWithinBudget ==
    /\ Len(prompts) <= max_retries
    /\ (plies > 0 /\ pc /= "attempting" => via \in {"provider", "fallback", "forfeit"})
    /\ (pc = "attempting" /\ attempt = max_retries => ENABLED Exhausted /\ ~ENABLED Attempt)

\* C4: no answer follows a valid one; when the k-th answer is the first valid one,
\* k <= max_retries provider calls were made, excluded_moves holds the k-1 earlier
\* answers and the move returned is the one parsed from the k-th answer. A valid
\* first answer therefore means one call and an empty excluded_moves.
C4_FirstValidAnswerResolves ==
    /\ InCall =>
         \A i \in 1..Len(responses) :
            Valid(responses[i]) => i = Len(responses) /\ pc = "returned" /\ via = "provider"
    /\ pc = "returned" /\ via = "provider" =>
         LET k == Len(responses) IN
         /\ k >= 1 /\ k <= max_retries
         /\ Len(prompts) = k
         /\ Valid(responses[k])
         /\ excluded_moves = SubSeq(responses, 1, k - 1)
         /\ move = parse_move(board, strip(responses[k]))
         /\ (Valid(responses[1]) => k = 1 /\ excluded_moves = <<>>)

\* C4 witness: the third answer was the first valid one, given in SAN.
C4_Witness ==
    /\ pc = "returned" /\ via = "provider"
    /\ Len(responses) = 3 /\ responses[3] = "e4"
    /\ move = e2e4
    /\ Len(excluded_moves) = 2

\* C5: with random_fallback off and all max_retries answers rejected, safe_get_move
\* returns None (forfeit) and no move.
C5_ForfeitWithoutFallback ==
    pc = "returned" /\ ~user_params.random_fallback /\ Len(excluded_moves) = max_retries
        => move = None /\ via = "forfeit"

\* C5 witness: three rejected answers, no fallback, the call has returned.
C5_Witness ==
    /\ pc = "returned" /\ ~user_params.random_fallback
    /\ Len(excluded_moves) = max_retries /\ Len(responses) = max_retries
    /\ move = None

\* C6: with random_fallback on and all max_retries answers rejected, the move
\* returned is a legal move of the position, which no move has been pushed on since
\* the call began, and every legal move of the position can be the one returned.
C6_FallbackIsAnyLegalMove ==
    /\ pc = "returned" /\ user_params.random_fallback /\ Len(excluded_moves) = max_retries =>
         /\ via = "fallback"
         /\ move \in legal_moves(board)
         /\ Len(board.move_stack) = plies - 1
    /\ pc = "attempting" /\ user_params.random_fallback /\ Len(excluded_moves) = max_retries =>
         \A m \in legal_moves(board) : ENABLED (Exhausted /\ move' = m)

\* C6 witness: the fallback returned a move in a position with two legal moves that
\* the provider never named.
C6_Witness ==
    /\ pc = "returned" /\ via = "fallback"
    /\ Cardinality(legal_moves(board)) = 2
    /\ Len(excluded_moves) = max_retries
    /\ move = g8f6

\* C7: during a call excluded_moves is the sequence of the rejected answers in the
\* order received, duplicates kept; the call of attempt k was given the answers
\* of attempts 1..k-1; and a step of the call leaves the list alone or appends
\* one text at its end.
C7_ExclusionsAreTheRejectedAnswers ==
    /\ [](InCall =>
            /\ Len(excluded_moves) = attempt
            /\ excluded_moves = SubSeq(responses, 1, attempt)
            /\ \A k \in 1..Len(prompts) :
                  prompts[k].exclusion.listed = SubSeq(responses, 1, k - 1))
    /\ [][pc = "attempting" =>
            \/ excluded_moves' = excluded_moves
            \/ /\ Len(responses') = Len(responses) + 1
               /\ excluded_moves' = Append(excluded_moves, responses'[Len(responses')])]_vars

\* C7 witness: the same invalid text three times gives three identical entries.
C7_Witness ==
    /\ InCall
    /\ excluded_moves = <<"e9e9", "e9e9", "e9e9">>
    /\ Len(prompts) = max_retries
    /\ prompts[3].exclusion.listed = <<"e9e9", "e9e9">>

\* C8: the first provider call of every ply is given an empty exclusion list,
\* whatever was rejected in earlier plies.
C8_ExclusionsResetEachPly ==
    /\ (pc = "attempting" /\ attempt = 0 => excluded_moves = <<>>)
    /\ (InCall /\ Len(prompts) >= 1 =>
            /\ prompts[1].exclusion.listed = <<>>
            /\ ~prompts[1].exclusion.present)

\* C8 witness: the first call of the third ply, after both sides exhausted their
\* attempts in the first two plies.
C8_Witness ==
    /\ plies = 3 /\ pc = "attempting" /\ Len(prompts) = 1
    /\ Len(warnings) = 2
    /\ warnings[1].side = "white" /\ warnings[2].side = "black"

\* C9: the board changes only when the match loop pushes the move safe_get_move
\* returned, a legal move of the position; no step of safe_get_move changes it, and
\* the n-th ply pushes the n-th move.
C9_BoardChangesOnlyByPlayedMove ==
    [][board' /= board =>
          /\ pc = "returned"
          /\ move /= None
          /\ move \in legal_moves(board)
          /\ board' = push(board, move)
          /\ Len(board'.move_stack) = plies]_vars

\* C9 witness: two moves have been pushed, the second after rejected answers.
C9_Witness ==
    /\ Len(board.move_stack) = 2 /\ plies = 2 /\ pc = "loop"
    /\ Len(excluded_moves) >= 1

\* C10 (as claimed): on None the loop ends without a push and the other side is the
\* winner, 1-0 when Black forfeits and 0-1 when White does; on a move the loop pushes
\* it and goes on with the next ply.
C10_ForfeitEndsElseContinue ==
    /\ [][pc = "returned" =>
            IF move = None
            THEN /\ board' = board
                 /\ pc' = "over"
                 /\ forfeit_winner' = Some(IF turn = "white" THEN "black" ELSE "white")
            ELSE /\ board' = push(board, move)
                 /\ pc' = "loop"
                 /\ turn' /= turn]_vars
    /\ [](pc = "done" /\ via = "forfeit" =>
            final_result = Some(IF turn = "black" THEN "1-0" ELSE "0-1"))

\* C10 (amended): as claimed, except that with time control on a mover whose clock
\* is at or below zero after the push ends the game, lost by the mover.
C10_ForfeitEndsElseContinueOrFlag ==
    /\ [][pc = "returned" =>
            IF move = None
            THEN /\ board' = board
                 /\ pc' = "over"
                 /\ forfeit_winner' = Some(IF turn = "white" THEN "black" ELSE "white")
            ELSE /\ board' = push(board, move)
                 /\ IF user_params.time_control /\ move_clock'[turn][1] <= 0
                    THEN /\ pc' = "over"
                         /\ forfeit_winner' = Some(IF turn = "white" THEN "black" ELSE "white")
                    ELSE /\ pc' = "loop"
                         /\ turn' /= turn]_vars
    /\ [](pc = "done" /\ via = "forfeit" =>
            final_result = Some(IF turn = "black" THEN "1-0" ELSE "0-1"))

\* C10 witness: Black forfeited after a White move, the game ended 1-0.
C10_Witness ==
    /\ pc = "done" /\ via = "forfeit" /\ turn = "black"
    /\ final_result = Some("1-0")
    /\ Len(board.move_stack) = 1

\* a prompt carries a block enumerating the legal moves
HasLegalMovesBlock(p) == "legal_moves" \in DOMAIN p

\* C11 (as claimed): with include_valid_moves on, every prompt sent carries the
\* enumeration of the legal moves of the position next to its other parts; with the
\* flag off no prompt carries such a block.
C11_LegalMovesBlockFollowsFlag ==
    InCall =>
        \A k \in 1..Len(prompts) :
            /\ prompts[k].color = color_str(board)
            /\ prompts[k].fen = fen(board)
            /\ IF user_params.include_valid_moves
               THEN /\ HasLegalMovesBlock(prompts[k])
                    /\ prompts[k].legal_moves = legal_moves(board)
               ELSE ~HasLegalMovesBlock(prompts[k])

\* the side to move on the board, as main.py names sides
SideToMove == IF board_turn(board) THEN "white" ELSE "black"

\* C12: the step in which safe_get_move falls back or forfeits shows exactly one
\* warning, naming the side to move and max_retries as the number of tries; the step
\* in which a provider move is returned, and every rejected attempt, shows none.
C12_WarningOnFallbackOrForfeit ==
    [][pc = "attempting" =>
          IF pc' = "returned" /\ via' \in {"fallback", "forfeit"}
          THEN /\ Len(warnings') = Len(warnings) + 1
               /\ SubSeq(warnings', 1, Len(warnings)) = warnings
               /\ warnings'[Len(warnings')].side = SideToMove
               /\ warnings'[Len(warnings')].tries = max_retries
               /\ warnings'[Len(warnings')].kind =
                     (IF via' = "fallback" THEN "random fallback" ELSE "forfeit")
          ELSE pc' \in {"attempting", "returned"} => warnings' = warnings]_vars

\* C12 witness: Black fell back in the second ply after White had resolved the
\* first with a provider move and no warning.
C12_Witness ==
    /\ pc = "returned" /\ via = "fallback" /\ plies = 2
    /\ warnings = <<[side |-> "black", tries |-> max_retries, kind |-> "random fallback"]>>
    /\ max_retries = 2

\* C13: called with max_retries = 0, safe_get_move makes no provider call and
\* returns by the exhausted branch with an empty excluded_moves: a legal move when
\* random_fallback is on, None otherwise.
C13_ZeroRetriesSkipsProvider ==
    max_retries = 0 /\ InCall =>
        /\ prompts = <<>> /\ responses = <<>> /\ excluded_moves = <<>>
        /\ (pc = "returned" =>
              IF user_params.random_fallback
              THEN via = "fallback" /\ move \in legal_moves(board)
              ELSE via = "forfeit" /\ move = None)

\* C13 witness: with max_retries = 0 and the fallback on, a second ply was resolved
\* by the fallback.
C13_Witness ==
    /\ max_retries = 0 /\ pc = "returned" /\ via = "fallback"
    /\ plies = 2 /\ prompts = <<>>
    /\ move \in legal_moves(board)

\* an Attempt step that received the text r from the provider
Received(r) ==
    /\ pc = "attempting"
    /\ responses' = Append(responses, r)

\* an Attempt step that counted its answer r as failed
RejectedAs(r) ==
    /\ pc' = "attempting"
    /\ excluded_moves' = Append(excluded_moves, r)
    /\ attempt' = attempt + 1
    /\ move' = move /\ via' = via
    /\ warnings' = warnings

\* texts that denote a move (the null move included) outside the legal moves of the board
DenotesIllegalMove(r) ==
    \/ from_uci(r) /= ValueError /\ from_uci(r) \notin legal_moves(board)
    \/ r \in NullSan

\* texts no notation reads
Unparsable(r) ==
    /\ from_uci(r) = ValueError
    /\ r \notin NullSan
    /\ \A m \in AllMoves : ~SanReads(board, m, r)

\* C14: an answer that denotes a move outside the legal-move set (a pseudo-legal
\* move such as e1e2, a move legal only elsewhere, the null move "0000") is counted
\* as failed exactly as an unparsable answer is: nothing is returned, the text is
\* appended to excluded_moves and one attempt is consumed.
C14_IllegalMoveRejectedLikeUnparsable ==
    [][\A r \in {strip(c) : c \in BackendContents} :
          Received(r) /\ (DenotesIllegalMove(r) \/ Unparsable(r)) => RejectedAs(r)]_vars

\* C14 witness: the null move, a pseudo-legal move and an unparsable text were
\* rejected in turn.
C14_Witness ==
    /\ pc = "attempting"
    /\ excluded_moves = <<"0000", "e1e2", "e9e9">>
    /\ attempt = 3

\* C15: an answer is read as UCI first and as SAN only when the UCI reading raises;
\* the move so read is returned at that attempt when it is legal, so the SAN of a
\* legal move that is no UCI text resolves the ply; an answer neither reading
\* accepts is a failed attempt.
C15_UciThenSan ==
    [][\A r \in {strip(c) : c \in BackendContents} :
          Received(r) =>
            LET uci == parse_uci(board, r)
                alg == parse_san(board, r)
                read == IF uci /= ValueError THEN uci ELSE alg
            IN  IF read /= ValueError /\ read \in legal_moves(board)
                THEN pc' = "returned" /\ via' = "provider" /\ move' = read
                ELSE RejectedAs(r)]_vars

\* C15 witness: "e4" is no UCI text and resolved the ply as the SAN of e2e4 after
\* a text neither reading accepts.
C15_Witness ==
    /\ pc = "returned" /\ via = "provider"
    /\ responses = <<"e9e9", "e4">>
    /\ parse_uci(board, "e4") = ValueError
    /\ move = e2e4

\* C16: a call of get_deepseek_move never raises; its request failing, it returns
\* the empty string, which is counted as a failed attempt: appended to
\* excluded_moves, one attempt consumed, the call goes on.
C16_DeepSeekErrorIsFailedAttempt ==
    [][pc = "attempting" /\ engine_of(turn) = "DeepSeek" =>
          /\ pc' /= "crashed"
          /\ (Len(prompts') = Len(prompts) + 1 => Len(responses') = Len(responses) + 1)
          /\ (Received("") => RejectedAs(""))]_vars

\* C16 witness: DeepSeek, playing White, answered with the empty string three times.
C16_Witness ==
    /\ user_params.white_engine = "DeepSeek" /\ turn = "white"
    /\ pc = "attempting"
    /\ excluded_moves = <<"", "", "">>

\* the engine configured for the side to move on the board
ConfiguredEngine ==
    IF board_turn(board) THEN user_params.white_engine ELSE user_params.black_engine

\* what C17 says of every state: the first call is White's on the starting
\* position, the n-th call is made with n-1 moves on the board, `turn` is the side
\* to move at every call, and the provider asked is the one configured for that
\* side (only get_deepseek_move cannot raise).
TurnTracksBoard ==
    /\ (plies = 0 => board = NewBoard /\ turn = "white")
    /\ (InCall => plies = Len(board.move_stack) + 1 /\ turn = SideToMove)
    /\ (pc = "attempting" /\ attempt < max_retries =>
          (ENABLED (Attempt /\ pc' = "crashed") <=> ConfiguredEngine /= "DeepSeek"))

\* C17 (as claimed): safe_get_move is called once per ply, first by White on the
\* starting position, with `turn` the side to move and the provider that of the side
\* to move; `turn` flips exactly when a move is pushed.
C17_TurnFlipsWithEveryMove ==
    /\ []TurnTracksBoard
    /\ [][(board' /= board) <=> (turn' /= turn)]_vars

\* C17 (amended): as claimed, except that the move of a mover who is then out of
\* time is pushed without a flip, the game ending there.
C17_TurnFlipsWithEveryMoveButFlag ==
    /\ []TurnTracksBoard
    /\ [][/\ turn' /= turn => board' /= board
          /\ board' /= board =>
                \/ turn' /= turn /\ pc' = "loop"
                \/ /\ turn' = turn /\ pc' = "over"
                   /\ user_params.time_control /\ move_clock'[turn][1] <= 0]_vars

\* C17 witness: the third call, White's again, after a DeepSeek and a Claude ply.
C17_Witness ==
    /\ plies = 3 /\ pc = "attempting" /\ turn = "white"
    /\ Len(board.move_stack) = 2
    /\ user_params.white_engine = "DeepSeek" /\ user_params.black_engine = "Claude"

\* the side that is not to move, as main.py names sides
Waiting == IF turn = "white" THEN "black" ELSE "white"

\* C18: a prompt carries the exclusion block exactly when the excluded_moves it was
\* built from is non-empty: the first prompt of a call carries none, the k-th
\* carries one listing the k-1 answers rejected before it.
C18_ExclusionBlockIffNonEmpty ==
    /\ InCall =>
         \A k \in 1..Len(prompts) :
            /\ prompts[k].exclusion.present <=> k > 1
            /\ prompts[k].exclusion.present =>
                  /\ prompts[k].exclusion.listed = SubSeq(responses, 1, k - 1)
                  /\ prompts[k].exclusion.listed /= <<>>
    /\ pc = "attempting" /\ attempt < max_retries =>
         (build_prompt(board, excluded_moves).exclusion.present <=> excluded_moves /= <<>>)

\* C18 witness: the third prompt of a second ply lists the two answers rejected in
\* that ply, its first prompt none.
C18_Witness ==
    /\ InCall /\ plies = 2 /\ Len(prompts) = 3
    /\ ~prompts[1].exclusion.present
    /\ prompts[3].exclusion.present
    /\ prompts[3].exclusion.listed = <<"e2e4", "0000">>

\* C19: a clock changes only in the step that pushes the returned move, after
\* safe_get_move has returned: the clock of the mover goes down, that of the other
\* side stays; the mover then at or below zero loses at once, otherwise the loop
\* goes on.
C19_ClockRunsBetweenPlies ==
    [][/\ move_clock' /= move_clock =>
             /\ pc = "returned" /\ move /= None
             /\ user_params.time_control
             /\ board' = push(board, move)
             /\ move_clock'[turn][1] < move_clock[turn][1]
             /\ move_clock'[Waiting] = move_clock[Waiting]
       /\ pc = "returned" /\ move /= None /\ user_params.time_control =>
             IF move_clock'[turn][1] <= 0
             THEN pc' = "over" /\ forfeit_winner' = Some(Waiting)
             ELSE pc' = "loop" /\ forfeit_winner' = forfeit_winner]_vars

\* C19 witness: Black ran out of time on the second ply, White's clock still
\* showing what it showed after the first.
C19_Witness ==
    /\ pc = "over" /\ turn = "black"
    /\ forfeit_winner = Some("white")
    /\ move_clock["black"][1] <= 0
    /\ move_clock["white"] = Some(59)
    /\ Len(board.move_stack) = 2

RECURSIVE Replay(_, _)
\* the board after the first k moves of a move stack
Replay(stack, k) == IF k = 0 THEN NewBoard ELSE push(Replay(stack, k - 1), stack[k])

\* C20 (as claimed): between plies and at the end of the game the PGN main line is
\* the sequence of the moves pushed on the board and the move log names them, by
\* side and SAN, in the same order.
C20_TranscriptMatchesBoard ==
    pc \in {"loop", "over", "done"} =>
        /\ node = board.move_stack
        /\ Len(move_log) = Len(board.move_stack)
        /\ \A k \in 1..Len(move_log) :
              /\ move_log[k].side = (IF k % 2 = 1 THEN "white" ELSE "black")
              /\ k <= Len(board.move_stack) =>
                    move_log[k].san = san(Replay(board.move_stack, k - 1), board.move_stack[k])

\* C21: safe_get_move is entered only from the loop test of main.py, on a position
\* that is not game over; during the call the position has a legal move, so the
\* fallback branch chooses from a non-empty set and random.choice never raises.
C21_CalledOnlyWithLegalMoves ==
    /\ [](InCall => ~is_game_over(board) /\ legal_moves(board) /= {})
    /\ [](pc = "attempting" /\ ~loop_continues(attempt, max_retries)
            /\ use_fallback(user_params) => fallback_choices(board) /= {})
    /\ [][/\ pc /= "attempting" /\ pc' = "attempting" =>
                pc = "loop" /\ ~is_game_over(board) /\ board' = board
          /\ pc = "attempting" /\ pc' = "crashed" =>
                loop_continues(attempt, max_retries)]_vars

\* C21 witness: the fallback chose the only legal move of a position one move
\* before stalemate, on the third ply of a game main.py runs.
C21_Witness ==
    /\ max_retries = MainMaxRetries /\ plies = 3
    /\ pc = "returned" /\ via = "fallback"
    /\ legal_moves(board) = {e2e4} /\ move = e2e4
    /\ is_game_over(push(board, move))

\* every answer received in the call was rejected
AllRejected ==
    /\ Len(responses) = max_retries
    /\ \A k \in 1..Len(responses) : ~Valid(responses[k])

\* C22: a call that has returned ended in exactly one way, fixed by the flag and
\* the answers: None only with random_fallback off and all max_retries answers
\* rejected, a fallback move only with random_fallback on and all max_retries
\* answers rejected, and never None with random_fallback on.
C22_TerminalStatesExclusive ==
    pc = "returned" =>
        /\ via \in {"provider", "fallback", "forfeit"}
        /\ (move = None) <=> (via = "forfeit")
        /\ via = "forfeit" => ~user_params.random_fallback /\ AllRejected
        /\ via = "fallback" => user_params.random_fallback /\ AllRejected
        /\ via = "provider" => ~AllRejected /\ Valid(responses[Len(responses)])
        /\ user_params.random_fallback => move /= None
        /\ warnings /= <<>> /\ via /= "provider" =>
              warnings[Len(warnings)].kind =
                 (IF user_params.random_fallback THEN "random fallback" ELSE "forfeit")

\* C22 witness: with random_fallback on and max_retries 2, two rejected answers
\* ended in a fallback move.
C22_Witness ==
    /\ pc = "returned" /\ via = "fallback" /\ max_retries = 2
    /\ user_params.random_fallback
    /\ responses = <<"e9e9", "">>
    /\ move /= None

====
